---------------------------- MODULE Spec2Model ----------------------------
(***************************************************************************)
(* SUPER Android Analyzer (src/src/main.rs).                               *)
(*                                                                         *)
(* Two state machines share this module:                                   *)
(*   Spec      the run controller `run` driving `analyze_package` over the *)
(*             configured packages (fail-fast batch, benchmark ledger,     *)
(*             summary output);                                            *)
(*   SpecCrit  the Criticality severity model (from_str, Display,          *)
(*             Serialize, Deserialize, derived Ord) applied to inputs      *)
(*             drawn from bounded sets.                                    *)
(*                                                                         *)
(* Text is modelled as a sequence of one-character strings wherever the    *)
(* code inspects its characters (Criticality), and as an opaque string or  *)
(* a tuple of format pieces where the code only passes it on (messages,    *)
(* benchmark labels).  Durations are not modelled: a Benchmark is its      *)
(* label.  Of stdout only the benchmark summary of `run` is modelled.      *)
(***************************************************************************)
EXTENDS Naturals, Sequences, FiniteSets

VARIABLES
    packages,       \* config.get_app_packages(): the package paths, in order
    configErrors,   \* config.get_errors(): the validation messages
    loadedFiles,    \* config.get_loaded_config_files()
    bench,          \* config.is_bench()
    open,           \* config.is_open()
    force,          \* the per-package "force" override of the configuration
    pc,             \* position of the control flow of run / analyze_package
    idx,            \* 1-based index of the package of the current iteration
    ledgerCreated,  \* whether `benchmarks` (main.rs:106) exists yet
    benchmarks,     \* BTreeMap<String, Vec<Benchmark>>: name -> sequence
    results,        \* the Results accumulator of the current package
    reports,        \* package names whose report generate_report has written
    calls,          \* log of the collaborator calls made so far, in order
    forceLeft,      \* the force value the loop found when it last took a package
    forceSeen,      \* the force value the first stage of each package found
    totalTime,      \* whether the "Total time" Benchmark has been created
    stdout,         \* the lines of the benchmark summary printed so far
    result,         \* what run() has returned, if it has
    hist            \* SpecCrit: the chain of values computed so far

runVars == <<packages, configErrors, loadedFiles, bench, open, force, pc, idx,
             ledgerCreated, benchmarks, results, reports, calls, forceLeft,
             forceSeen, totalTime, stdout, result>>

vars == <<packages, configErrors, loadedFiles, bench, open, force, pc, idx,
          ledgerCreated, benchmarks, results, reports, calls, forceLeft,
          forceSeen, totalTime, stdout, result, hist>>

(***************************************************************************)
(* Bounds of the model.                                                    *)
(***************************************************************************)
MaxPackages == 3

MaxChain == 3

(***************************************************************************)
(* Inputs of a run.                                                        *)
(***************************************************************************)
\* Package paths a configuration may list.  Two of them resolve to the same
\* package name, and the names are not in path order.
Paths == {"b.apk", "a.apk", "old/a.apk"}

\* get_package_name(&package): a pure function of the path (the file stem).
get_package_name(path) ==
    CASE path = "b.apk"     -> "b"
      [] path = "a.apk"     -> "a"
      [] path = "old/a.apk" -> "a"

PackageNames == {get_package_name(p) : p \in Paths}

\* Ord for String restricted to the package names: "a" < "b".
NameRank(name) == CASE name = "a" -> 1 [] name = "b" -> 2

NameLt(m, n) == NameRank(m) < NameRank(n)

RECURSIVE SeqsUpTo(_, _)
SeqsUpTo(S, n) ==
    IF n = 0 THEN {<<>>}
    ELSE LET shorter == SeqsUpTo(S, n - 1)
         IN  shorter \cup {Append(s, x) : s \in {t \in shorter : Len(t) = n - 1}, x \in S}

PackageLists == SeqsUpTo(Paths, MaxPackages)

ConfigErrorLists == {<<>>, <<"unknown permission">>,
                     <<"unknown permission", "threads out of range">>}

LoadedFileLists == {<<>>, <<"config.toml">>}

\* What the external handler of open::that can report when it does not
\* succeed (ExitStatus, formatted with Display).
FailureStatuses == {"exit code: 1", "signal: 9"}

(***************************************************************************)
(* Values.                                                                 *)
(***************************************************************************)
EmptyMap == [n \in {} |-> <<>>]

NoResults == [package |-> 0, recorded |-> "none"]

\* What run() has returned: nothing yet, Ok(()), an Err with its kind and
\* causation chain (outermost message first; a message is its pieces in
\* order), or a panic.
Running == [status |-> "running", kind |-> "none", chain |-> <<>>]

Ok == [status |-> "ok", kind |-> "none", chain |-> <<>>]

Err(kind, chain) == [status |-> "err", kind |-> kind, chain |-> chain]

Panicked == [status |-> "panic", kind |-> "none", chain |-> <<>>]

\* A line of output.
Line(kind, text) == [kind |-> kind, text |-> text]

\* Benchmark::new(label, duration)
Benchmark(label) == [label |-> label]

\* What static_analysis may leave in the accumulator.
Recordings == {"nothing", "vulnerabilities", "analysis errors"}

Call(package, step, outcome) == [package |-> package, step |-> step, outcome |-> outcome]

package_name == get_package_name(packages[idx])

\* config.check(): valid when no error was accumulated.
check == configErrors = <<>>

\* config.reset_force(): the override is cleared.
reset_force == FALSE

\* BTreeMap::insert(name, Vec::with_capacity(4)): an existing entry is replaced.
Insert(map, name) ==
    [n \in DOMAIN map \cup {name} |-> IF n = name THEN <<>> ELSE map[n]]

(***************************************************************************)
(* run, lines 64-130.                                                      *)
(***************************************************************************)
RECURSIVE Concat(_)
Concat(ss) == IF ss = <<>> THEN <<>> ELSE Head(ss) \o Concat(Tail(ss))

\* The Config error message without the loop over the loaded files.
ConfigErrorStringNoFiles ==
    <<"Configuration errors were found:\n">>
    \o Concat([i \in 1..Len(configErrors) |-> <<configErrors[i], "\n">>])
    \o <<"The configuration was loaded, in order, from the following files: \n\t- Default built-in configuration\n">>

\* The Config error message built at lines 72-83, as its pieces in order.
ConfigErrorString ==
    <<"Configuration errors were found:\n">>
    \o Concat([i \in 1..Len(configErrors) |-> <<configErrors[i], "\n">>])
    \o <<"The configuration was loaded, in order, from the following files: \n\t- Default built-in configuration\n">>
    \o Concat([i \in 1..Len(loadedFiles) |-> <<"\t- ", loadedFiles[i], "\n">>])

\* Lines 71-106: validation, then the ledger is created.
CheckConfig ==
    /\ pc = "check"
    /\ IF ~check
       THEN /\ result' = Err("Config", <<ConfigErrorString>>)
            /\ pc' = "done"
            /\ UNCHANGED <<ledgerCreated, benchmarks>>
       ELSE /\ ledgerCreated' = TRUE
            /\ benchmarks' = EmptyMap
            /\ pc' = "loop"
            /\ UNCHANGED result
    /\ UNCHANGED <<packages, configErrors, loadedFiles, bench, open, force, idx,
                   results, reports, calls, forceLeft, forceSeen, totalTime, stdout, hist>>

\* StartPackage without the call of reset_force.
StartPackageNoReset ==
    /\ pc = "loop"
    /\ idx <= Len(packages)
    /\ forceLeft' = force
    /\ benchmarks' = IF bench THEN Insert(benchmarks, package_name) ELSE benchmarks
    /\ pc' = "decompress"
    /\ UNCHANGED <<packages, configErrors, loadedFiles, bench, open, force, idx,
                   ledgerCreated, results, reports, calls, forceSeen, totalTime,
                   stdout, result, hist>>

\* StartPackage without the insert into the ledger.
StartPackageNoInsert ==
    /\ pc = "loop"
    /\ idx <= Len(packages)
    /\ forceLeft' = force
    /\ force' = reset_force
    /\ pc' = "decompress"
    /\ UNCHANGED <<packages, configErrors, loadedFiles, bench, open, idx,
                   ledgerCreated, benchmarks, results, reports, calls, forceSeen,
                   totalTime, stdout, result, hist>>

\* Lines 109-111 and 169-177: the loop takes the next package, clears the
\* force override and enters analyze_package, which registers the package
\* in the ledger when benchmarking.
StartPackage ==
    /\ pc = "loop"
    /\ idx <= Len(packages)
    /\ forceLeft' = force
    /\ force' = reset_force
    /\ benchmarks' = IF bench THEN Insert(benchmarks, package_name) ELSE benchmarks
    /\ pc' = "decompress"
    /\ UNCHANGED <<packages, configErrors, loadedFiles, bench, open, idx,
                   ledgerCreated, results, reports, calls, forceSeen, totalTime,
                   stdout, result, hist>>

\* The keys in descending order.
RECURSIVE SortedKeysDescending(_)
SortedKeysDescending(S) ==
    IF S = {} THEN <<>>
    ELSE LET greatest == CHOOSE m \in S : \A n \in S \ {m} : NameLt(n, m)
         IN  <<greatest>> \o SortedKeysDescending(S \ {greatest})

\* The keys of a BTreeMap in iteration order: ascending.
RECURSIVE SortedKeys(_)
SortedKeys(S) ==
    IF S = {} THEN <<>>
    ELSE LET least == CHOOSE m \in S : \A n \in S \ {m} : NameLt(m, n)
         IN  <<least>> \o SortedKeys(S \ {least})

\* Lines 119-125: one group per ledger entry.
PrintGroup(name, benches) ==
    <<Line("package", <<name, ":">>)>>
    \o [i \in 1..Len(benches) |-> Line("bench", benches[i].label)]
    \o <<Line("blank", <<>>)>>

\* Lines 117-126.
PrintSummary(map) ==
    <<Line("blank", <<>>), Line("header", <<"Benchmarks:">>)>>
    \o Concat([k \in 1..Cardinality(DOMAIN map) |->
                  PrintGroup(SortedKeys(DOMAIN map)[k], map[SortedKeys(DOMAIN map)[k]])])
    \o <<Line("bench", Benchmark(<<"Total time">>).label)>>

\* Summary printing whether or not benchmarking is enabled.
SummaryAlways ==
    /\ pc = "loop"
    /\ idx > Len(packages)
    /\ totalTime' = TRUE
    /\ stdout' = stdout \o PrintSummary(benchmarks)
    /\ result' = Ok
    /\ pc' = "done"
    /\ UNCHANGED <<packages, configErrors, loadedFiles, bench, open, force, idx,
                   ledgerCreated, benchmarks, results, reports, calls, forceLeft,
                   forceSeen, hist>>

\* Summary without the block that prints the benchmarks.
SummarySilent ==
    /\ pc = "loop"
    /\ idx > Len(packages)
    /\ result' = Ok
    /\ pc' = "done"
    /\ UNCHANGED <<packages, configErrors, loadedFiles, bench, open, force, idx,
                   ledgerCreated, benchmarks, results, reports, calls, forceLeft,
                   forceSeen, totalTime, stdout, hist>>

\* Lines 115-129: after the last package.
Summary ==
    /\ pc = "loop"
    /\ idx > Len(packages)
    /\ IF bench
       THEN /\ totalTime' = TRUE
            /\ stdout' = stdout \o PrintSummary(benchmarks)
       ELSE UNCHANGED <<totalTime, stdout>>
    /\ result' = Ok
    /\ pc' = "done"
    /\ UNCHANGED <<packages, configErrors, loadedFiles, bench, open, force, idx,
                   ledgerCreated, benchmarks, results, reports, calls, forceLeft, forceSeen,
                   hist>>

(***************************************************************************)
(* analyze_package, lines 164-322.                                         *)
(***************************************************************************)
\* What a stage does to the mutable configuration it is handed: it may set
\* the force override (a later stage then redoes its work).
StageConfig(sets) == force \/ sets

\* `?` on an Err inside analyze_package: the error leaves analyze_package,
\* run wraps it with "Application analysis failed" (line 112) and returns.
Abort(chain) ==
    /\ result' = Err("Msg", <<<<"Application analysis failed">>>> \o chain)
    /\ pc' = "done"

\* if config.is_bench() { benchmarks.get_mut(&package_name).unwrap().push(..) }
\* followed by the code up to the next collaborator call.
Record(labels, next) ==
    IF ~bench
    THEN /\ pc' = next
         /\ UNCHANGED <<benchmarks, result>>
    ELSE IF package_name \in DOMAIN benchmarks
    THEN /\ benchmarks' = [benchmarks EXCEPT ![package_name] =
                               @ \o [i \in 1..Len(labels) |-> Benchmark(labels[i])]]
         /\ pc' = next
         /\ UNCHANGED result
    ELSE /\ result' = Panicked
         /\ pc' = "done"
         /\ UNCHANGED benchmarks

\* Decompress with its error dropped instead of propagated by `?`.
DecompressIgnoringFailure ==
    /\ pc = "decompress"
    /\ \E ok \in BOOLEAN, sets \in BOOLEAN :
          /\ forceSeen' = Append(forceSeen, force)
          /\ force' = StageConfig(sets)
          /\ calls' = Append(calls, Call(idx, "decompress", IF ok THEN "ok" ELSE "err"))
          /\ Record(<<<<"Apk decompression">>>>, "dex_to_jar")
    /\ UNCHANGED <<packages, configErrors, loadedFiles, bench, open, idx,
                   ledgerCreated, results, reports, forceLeft, totalTime, stdout, hist>>

\* Lines 179-192: decompress(config, &package).chain_err(..)?
Decompress ==
    /\ pc = "decompress"
    /\ \E ok \in BOOLEAN, sets \in BOOLEAN :
          /\ forceSeen' = Append(forceSeen, force)
          /\ force' = StageConfig(sets)
          /\ calls' = Append(calls, Call(idx, "decompress", IF ok THEN "ok" ELSE "err"))
          /\ IF ok
             THEN Record(<<<<"Apk decompression">>>>, "dex_to_jar")
             ELSE /\ Abort(<<<<"apk decompression failed">>, <<"decompress error">>>>)
                  /\ UNCHANGED benchmarks
    /\ UNCHANGED <<packages, configErrors, loadedFiles, bench, open, idx,
                   ledgerCreated, results, reports, forceLeft, totalTime, stdout, hist>>

\* DexToJar followed by Results::init, the decompilation left out.
DexToJarThenResults ==
    /\ pc = "dex_to_jar"
    /\ \E ok \in BOOLEAN, sets \in BOOLEAN :
          /\ force' = StageConfig(sets)
          /\ calls' = Append(calls, Call(idx, "dex_to_jar", IF ok THEN "ok" ELSE "err"))
          /\ IF ok
             THEN Record(<<<<"Dex to Jar decompilation (dex2jar Java dependency)">>>>,
                         "results_init")
             ELSE /\ Abort(<<<<"Conversion from DEX to JAR failed">>, <<"dex_to_jar error">>>>)
                  /\ UNCHANGED benchmarks
    /\ UNCHANGED <<packages, configErrors, loadedFiles, bench, open, idx,
                   ledgerCreated, results, reports, forceLeft, forceSeen, totalTime,
                   stdout, hist>>

\* Lines 194-208: dex_to_jar(config, &package).chain_err(..)?
DexToJar ==
    /\ pc = "dex_to_jar"
    /\ \E ok \in BOOLEAN, sets \in BOOLEAN :
          /\ force' = StageConfig(sets)
          /\ calls' = Append(calls, Call(idx, "dex_to_jar", IF ok THEN "ok" ELSE "err"))
          /\ IF ok
             THEN Record(<<<<"Dex to Jar decompilation (dex2jar Java dependency)">>>>,
                         "decompile")
             ELSE /\ Abort(<<<<"Conversion from DEX to JAR failed">>, <<"dex_to_jar error">>>>)
                  /\ UNCHANGED benchmarks
    /\ UNCHANGED <<packages, configErrors, loadedFiles, bench, open, idx,
                   ledgerCreated, results, reports, forceLeft, forceSeen, totalTime, stdout,
                   hist>>

\* Decompile with its Benchmark pushed before the error is looked at.
DecompileRecordsFirst ==
    /\ pc = "decompile"
    /\ \E ok \in BOOLEAN, sets \in BOOLEAN :
          /\ force' = StageConfig(sets)
          /\ calls' = Append(calls, Call(idx, "decompile", IF ok THEN "ok" ELSE "err"))
          /\ IF ok
             THEN Record(<<<<"Decompilation (jd-cli Java dependency)">>>>, "results_init")
             ELSE /\ Abort(<<<<"JAR decompression failed">>, <<"decompile error">>>>)
                  /\ benchmarks' =
                        IF bench /\ package_name \in DOMAIN benchmarks
                        THEN [benchmarks EXCEPT ![package_name] = Append(@,
                                 Benchmark(<<"Decompilation (jd-cli Java dependency)">>))]
                        ELSE benchmarks
    /\ UNCHANGED <<packages, configErrors, loadedFiles, bench, open, idx,
                   ledgerCreated, results, reports, forceLeft, forceSeen, totalTime,
                   stdout, hist>>

\* Lines 218-233: decompile(config, &package).chain_err(..)?
Decompile ==
    /\ pc = "decompile"
    /\ \E ok \in BOOLEAN, sets \in BOOLEAN :
          /\ force' = StageConfig(sets)
          /\ calls' = Append(calls, Call(idx, "decompile", IF ok THEN "ok" ELSE "err"))
          /\ IF ok
             THEN Record(<<<<"Decompilation (jd-cli Java dependency)">>>>, "results_init")
             ELSE /\ Abort(<<<<"JAR decompression failed">>, <<"decompile error">>>>)
                  /\ UNCHANGED benchmarks
    /\ UNCHANGED <<packages, configErrors, loadedFiles, bench, open, idx,
                   ledgerCreated, results, reports, forceLeft, forceSeen, totalTime, stdout,
                   hist>>

\* Line 235: Results::init(config, &package)?  The error is passed on as it
\* is: no chain_err at this call.
ResultsInit ==
    /\ pc = "results_init"
    /\ \E ok \in BOOLEAN :
          /\ calls' = Append(calls, Call(idx, "results_init", IF ok THEN "ok" ELSE "err"))
          /\ IF ok
             THEN /\ results' = [package |-> idx, recorded |-> "nothing"]
                  /\ pc' = "static_analysis"
                  /\ UNCHANGED result
             ELSE /\ Abort(<<<<"Results::init error">>>>)
                  /\ UNCHANGED results
    /\ UNCHANGED <<packages, configErrors, loadedFiles, bench, open, force, idx,
                   ledgerCreated, benchmarks, reports, forceLeft, forceSeen, totalTime, stdout,
                   hist>>

\* StaticAnalysis made fallible: analysis errors abort the run.
StaticAnalysisFallible ==
    /\ pc = "static_analysis"
    /\ \E recorded \in Recordings, sets \in BOOLEAN :
          /\ results' = [results EXCEPT !.recorded = recorded]
          /\ force' = StageConfig(sets)
          /\ calls' = Append(calls, Call(idx, "static_analysis",
                                IF recorded = "analysis errors" THEN "err" ELSE "ok"))
          /\ IF recorded = "analysis errors"
             THEN /\ Abort(<<<<"static analysis failed">>, <<"static_analysis error">>>>)
                  /\ UNCHANGED benchmarks
             ELSE Record(<<<<"Total static analysis">>>>, "generate_report")
    /\ UNCHANGED <<packages, configErrors, loadedFiles, bench, open, idx,
                   ledgerCreated, reports, forceLeft, forceSeen, totalTime, stdout, hist>>

\* Lines 236-248: static_analysis(config, &package_name, &mut results) returns
\* nothing; whatever it finds goes into the accumulator.
StaticAnalysis ==
    /\ pc = "static_analysis"
    /\ \E recorded \in Recordings, sets \in BOOLEAN :
          /\ results' = [results EXCEPT !.recorded = recorded]
          /\ force' = StageConfig(sets)
    /\ calls' = Append(calls, Call(idx, "static_analysis", "ok"))
    /\ Record(<<<<"Total static analysis">>>>, "generate_report")
    /\ UNCHANGED <<packages, configErrors, loadedFiles, bench, open, idx,
                   ledgerCreated, reports, forceLeft, forceSeen, totalTime, stdout, hist>>

\* GenerateReport without the two last Benchmarks of the package.
GenerateReportNoBench ==
    /\ pc = "generate_report"
    /\ \E ok \in BOOLEAN :
          /\ calls' = Append(calls, Call(idx, "generate_report", IF ok THEN "ok" ELSE "err"))
          /\ IF ok
             THEN /\ reports' = reports \cup {package_name}
                  /\ Record(<<>>, "open")
             ELSE /\ Abort(<<<<"There was an error generating the results report. Tried to generate at: ",
                                "results/", package_name>>,
                             <<"generate_report error">>>>)
                  /\ UNCHANGED <<benchmarks, reports>>
    /\ UNCHANGED <<packages, configErrors, loadedFiles, bench, open, force, idx,
                   ledgerCreated, results, forceLeft, forceSeen, totalTime, stdout, hist>>

\* Lines 256-295: results.generate_report(config, &package_name).chain_err(..)?
\* and, when benchmarking, the two last Benchmarks of the package.
GenerateReport ==
    /\ pc = "generate_report"
    /\ \E ok \in BOOLEAN :
          /\ calls' = Append(calls, Call(idx, "generate_report", IF ok THEN "ok" ELSE "err"))
          /\ IF ok
             THEN /\ reports' = reports \cup {package_name}
                  /\ Record(<<<<"Report generation">>, <<"Total time for ", package_name>>>>,
                            "open")
             ELSE /\ Abort(<<<<"There was an error generating the results report. Tried to generate at: ",
                                "results/", package_name>>,
                             <<"generate_report error">>>>)
                  /\ UNCHANGED <<benchmarks, reports>>
    /\ UNCHANGED <<packages, configErrors, loadedFiles, bench, open, force, idx,
                   ledgerCreated, results, forceLeft, forceSeen, totalTime, stdout, hist>>

\* OpenReport without the test of the handler's exit status.
OpenReportIgnoringStatus ==
    /\ pc = "open"
    /\ IF ~open
       THEN /\ pc' = "loop"
            /\ idx' = idx + 1
            /\ results' = NoResults
            /\ UNCHANGED <<calls, result>>
       ELSE \E outcome \in {"ok", "err"} \cup FailureStatuses :
               /\ calls' = Append(calls, Call(idx, "open", outcome))
               /\ IF outcome # "err"
                  THEN /\ pc' = "loop"
                       /\ idx' = idx + 1
                       /\ results' = NoResults
                       /\ UNCHANGED result
                  ELSE /\ Abort(<<<<"Report could not be opened automatically">>,
                                  <<"open::that error">>>>)
                       /\ UNCHANGED <<idx, results>>
    /\ UNCHANGED <<packages, configErrors, loadedFiles, bench, open, force,
                   ledgerCreated, benchmarks, reports, forceLeft, forceSeen, totalTime,
                   stdout, hist>>

\* OpenReport whose successful return leaves the loop of run on the same
\* package.
OpenReportRepeats ==
    /\ pc = "open"
    /\ IF ~open
       THEN /\ pc' = "loop"
            /\ results' = NoResults
            /\ UNCHANGED <<calls, result>>
       ELSE \E outcome \in {"ok", "err"} \cup FailureStatuses :
               /\ calls' = Append(calls, Call(idx, "open", outcome))
               /\ IF outcome = "ok"
                  THEN /\ pc' = "loop"
                       /\ results' = NoResults
                       /\ UNCHANGED result
                  ELSE /\ IF outcome = "err"
                          THEN Abort(<<<<"Report could not be opened automatically">>,
                                       <<"open::that error">>>>)
                          ELSE Abort(<<<<"Report opening errored with status code: ",
                                         outcome>>>>)
                       /\ UNCHANGED results
    /\ UNCHANGED <<packages, configErrors, loadedFiles, bench, open, force, idx,
                   ledgerCreated, benchmarks, reports, forceLeft, forceSeen, totalTime, stdout,
                   hist>>

\* Lines 297-321: the report is opened when asked for, and analyze_package
\* returns; on Ok the loop of run goes on to the next package.
OpenReport ==
    /\ pc = "open"
    /\ IF ~open
       THEN /\ pc' = "loop"
            /\ idx' = idx + 1
            /\ results' = NoResults
            /\ UNCHANGED <<calls, result>>
       ELSE \E outcome \in {"ok", "err"} \cup FailureStatuses :
               /\ calls' = Append(calls, Call(idx, "open", outcome))
               /\ IF outcome = "ok"
                  THEN /\ pc' = "loop"
                       /\ idx' = idx + 1
                       /\ results' = NoResults
                       /\ UNCHANGED result
                  ELSE /\ IF outcome = "err"
                          THEN Abort(<<<<"Report could not be opened automatically">>,
                                       <<"open::that error">>>>)
                          ELSE Abort(<<<<"Report opening errored with status code: ",
                                         outcome>>>>)
                       /\ UNCHANGED <<idx, results>>
    /\ UNCHANGED <<packages, configErrors, loadedFiles, bench, open, force,
                   ledgerCreated, benchmarks, reports, forceLeft, forceSeen, totalTime, stdout,
                   hist>>

(***************************************************************************)
(* The run as a state machine.                                             *)
(***************************************************************************)
NoHist == <<>>

Init ==
    /\ packages \in PackageLists
    /\ configErrors \in ConfigErrorLists
    /\ loadedFiles \in LoadedFileLists
    /\ bench \in BOOLEAN
    /\ open \in BOOLEAN
    /\ force \in BOOLEAN
    /\ pc = "check"
    /\ idx = 1
    /\ ledgerCreated = FALSE
    /\ benchmarks = EmptyMap
    /\ results = NoResults
    /\ reports = {}
    /\ calls = <<>>
    /\ forceLeft = FALSE
    /\ forceSeen = <<>>
    /\ totalTime = FALSE
    /\ stdout = <<>>
    /\ result = Running
    /\ hist = NoHist

Next ==
    \/ CheckConfig
    \/ StartPackage
    \/ Decompress
    \/ DexToJar
    \/ Decompile
    \/ ResultsInit
    \/ StaticAnalysis
    \/ GenerateReport
    \/ OpenReport
    \/ Summary

Spec == Init /\ [][Next]_vars

\* run is sequential code and every collaborator call returns: a step that
\* can be taken is taken.
SpecFair == Init /\ [][Next]_vars /\ WF_vars(Next)

(***************************************************************************)
(* Criticality, lines 324-392.                                             *)
(***************************************************************************)
Lowercase == <<"a", "b", "c", "d", "e", "f", "g", "h", "i", "j", "k", "l", "m",
               "n", "o", "p", "q", "r", "s", "t", "u", "v", "w", "x", "y", "z">>

Uppercase == <<"A", "B", "C", "D", "E", "F", "G", "H", "I", "J", "K", "L", "M",
               "N", "O", "P", "Q", "R", "S", "T", "U", "V", "W", "X", "Y", "Z">>

\* char::to_lowercase on the characters the model uses.
LowerChar(ch) ==
    IF \E i \in 1..Len(Uppercase) : Uppercase[i] = ch
    THEN Lowercase[CHOOSE i \in 1..Len(Uppercase) : Uppercase[i] = ch]
    ELSE ch

\* str::to_lowercase
to_lowercase(s) == [i \in 1..Len(s) |-> LowerChar(s[i])]

\* The variants declared with Low before Warning.
VariantsLowFirst == <<"Low", "Warning", "Medium", "High", "Critical">>

\* The variants in declaration order (lines 326-337).
Variants == <<"Warning", "Low", "Medium", "High", "Critical">>

Criticality == {Variants[i] : i \in 1..Len(Variants)}

\* derive(Debug): the variant's name.
Debug(c) ==
    CASE c = "Warning"  -> <<"W", "a", "r", "n", "i", "n", "g">>
      [] c = "Low"      -> <<"L", "o", "w">>
      [] c = "Medium"   -> <<"M", "e", "d", "i", "u", "m">>
      [] c = "High"     -> <<"H", "i", "g", "h">>
      [] c = "Critical" -> <<"C", "r", "i", "t", "i", "c", "a", "l">>

\* Values a step of the severity model takes or yields.
TextVal(s) == [kind |-> "text", text |-> s]

CritVal(c) == [kind |-> "crit", crit |-> c]

NodeVal(type, s) == [kind |-> "node", type |-> type, text |-> s]

\* ErrorKind::Parse.into()
ParseError == [kind |-> "error", err |-> "Parse"]

\* serde::de::Error::custom(format!("Unexpected value: {:?}", deser_result))
UnexpectedValue(node) ==
    [kind |-> "error", err |-> "custom", msg |-> "Unexpected value: ", value |-> node]

\* Display without to_lowercase: the Debug name.
fmt_debug(c) == Debug(c)

\* impl Display for Criticality, lines 339-344.
fmt(c) == to_lowercase(Debug(c))

\* from_str with a default variant in place of the Parse error.
from_str_default(s) ==
    LET lower == to_lowercase(s)
    IN  CASE lower = <<"c", "r", "i", "t", "i", "c", "a", "l">> -> CritVal("Critical")
          [] lower = <<"h", "i", "g", "h">>                     -> CritVal("High")
          [] lower = <<"m", "e", "d", "i", "u", "m">>           -> CritVal("Medium")
          [] lower = <<"l", "o", "w">>                          -> CritVal("Low")
          [] OTHER                                              -> CritVal("Warning")

\* impl FromStr for Criticality, lines 380-392.
from_str(s) ==
    LET lower == to_lowercase(s)
    IN  CASE lower = <<"c", "r", "i", "t", "i", "c", "a", "l">> -> CritVal("Critical")
          [] lower = <<"h", "i", "g", "h">>                     -> CritVal("High")
          [] lower = <<"m", "e", "d", "i", "u", "m">>           -> CritVal("Medium")
          [] lower = <<"l", "o", "w">>                          -> CritVal("Low")
          [] lower = <<"w", "a", "r", "n", "i", "n", "g">>      -> CritVal("Warning")
          [] OTHER                                              -> ParseError

\* impl Serialize for Criticality, lines 346-353: serialize_str of Display.
serialize(c) == NodeVal("String", fmt(c))

\* deserialize parsing the text of a node of any type.
deserialize_any(node) ==
    LET parsed == from_str(node.text)
    IN  IF parsed.kind = "crit" THEN parsed ELSE UnexpectedValue(node)

\* impl Deserialize for Criticality, lines 355-378, on a toml Value.
deserialize(node) ==
    IF node.type = "String"
    THEN LET parsed == from_str(node.text)
         IN  IF parsed.kind = "crit" THEN parsed ELSE UnexpectedValue(node)
    ELSE UnexpectedValue(node)

\* derive(PartialEq, Eq, PartialOrd, Ord): variants compare by their place
\* in the declaration.
Discriminant(c) == CHOOSE i \in 1..Len(Variants) : Variants[i] = c

cmp(a, b) ==
    IF Discriminant(a) < Discriminant(b) THEN "Less"
    ELSE IF Discriminant(a) = Discriminant(b) THEN "Equal"
    ELSE "Greater"

lt(a, b) == cmp(a, b) = "Less"

eq(a, b) == Discriminant(a) = Discriminant(b)

(***************************************************************************)
(* Inputs of the severity model.                                           *)
(***************************************************************************)
UpperChar(ch) ==
    IF \E i \in 1..Len(Lowercase) : Lowercase[i] = ch
    THEN Uppercase[CHOOSE i \in 1..Len(Lowercase) : Lowercase[i] = ch]
    ELSE ch

\* Every letter-casing of a text.
RECURSIVE Casings(_)
Casings(s) ==
    IF s = <<>> THEN {<<>>}
    ELSE {<<ch>> \o rest : ch \in {Head(s), UpperChar(Head(s))}, rest \in Casings(Tail(s))}

\* The five canonical severity names.
CanonicalName ==
    [c \in {"Warning", "Low", "Medium", "High", "Critical"} |->
        CASE c = "Warning"  -> <<"w", "a", "r", "n", "i", "n", "g">>
          [] c = "Low"      -> <<"l", "o", "w">>
          [] c = "Medium"   -> <<"m", "e", "d", "i", "u", "m">>
          [] c = "High"     -> <<"h", "i", "g", "h">>
          [] c = "Critical" -> <<"c", "r", "i", "t", "i", "c", "a", "l">>]

CasingsOf == [c \in DOMAIN CanonicalName |-> Casings(CanonicalName[c])]

ValidTexts == UNION {CasingsOf[c] : c \in DOMAIN CanonicalName}

\* Empty, numeric, misspelled, truncated, padded and synonym texts.
InvalidTexts ==
    {<<>>, <<"1">>, <<"4", "2">>, <<"h", "i", "g">>, <<"H", "I", "G", "H", "H">>,
     <<"l", "o">>, <<"L", "0", "W">>, <<"w", "a", "r", "n">>, <<"W", "a", "r", "n", "i", "g">>,
     <<"m", "e", "d", "i", "u", "n">>, <<"c", "r", "i", "t", "i", "c", "a", "1">>,
     <<"C", "r", "i", "t", "c", "a", "l">>, <<" ", "l", "o", "w">>, <<"l", "o", "w", " ">>,
     <<"i", "n", "f", "o">>, <<"e", "r", "r", "o", "r">>, <<"n", "o", "n", "e">>,
     <<"l", "o", "w", "h", "i", "g", "h">>, <<"-">>}

Texts == ValidTexts \cup InvalidTexts

\* The variants of toml::value::Value.
NodeTypes == {"String", "Integer", "Float", "Boolean", "Datetime", "Array", "Table"}

\* Nodes: every text as a String, and the other types holding a number or a
\* severity name (an array of one name, a table with a name in it, ...).
Nodes ==
    {NodeVal("String", s) : s \in Texts}
    \cup {NodeVal(t, s) : t \in NodeTypes \ {"String"},
                          s \in {<<"1">>, <<"h", "i", "g", "h">>, <<"L", "o", "w">>}}

Triples == {[kind |-> "triple", a |-> a, b |-> b, c |-> c] :
                a \in Criticality, b \in Criticality, c \in Criticality}

CritInputs ==
    {TextVal(s) : s \in Texts} \cup {CritVal(c) : c \in Criticality}
    \cup Nodes \cup Triples

(***************************************************************************)
(* The severity model as a state machine: hist is the chain of values,     *)
(* each with the operation that produced it from the one before.           *)
(***************************************************************************)
Step(op, val) == [op |-> op, val |-> val]

Last == hist[Len(hist)].val

CanStep(kind) ==
    /\ hist # <<>>
    /\ Len(hist) <= MaxChain
    /\ Last.kind = kind

FromStr ==
    /\ CanStep("text")
    /\ hist' = Append(hist, Step("from_str", from_str(Last.text)))
    /\ UNCHANGED runVars

Display ==
    /\ CanStep("crit")
    /\ hist' = Append(hist, Step("fmt", TextVal(fmt(Last.crit))))
    /\ UNCHANGED runVars

Serialize ==
    /\ CanStep("crit")
    /\ hist' = Append(hist, Step("serialize", serialize(Last.crit)))
    /\ UNCHANGED runVars

Deserialize ==
    /\ CanStep("node")
    /\ hist' = Append(hist, Step("deserialize", deserialize(Last)))
    /\ UNCHANGED runVars

\* The comparisons of the three variants of a triple.
Compare ==
    /\ CanStep("triple")
    /\ hist' = Append(hist, Step("cmp",
                   [kind |-> "ordering",
                    lt_ab |-> lt(Last.a, Last.b), lt_ba |-> lt(Last.b, Last.a),
                    eq_ab |-> eq(Last.a, Last.b), lt_bc |-> lt(Last.b, Last.c),
                    lt_ac |-> lt(Last.a, Last.c), cmp_ab |-> cmp(Last.a, Last.b)]))
    /\ UNCHANGED runVars

InitCrit ==
    /\ packages = <<>>
    /\ configErrors = <<>>
    /\ loadedFiles = <<>>
    /\ bench = FALSE
    /\ open = FALSE
    /\ force = FALSE
    /\ pc = "done"
    /\ idx = 1
    /\ ledgerCreated = FALSE
    /\ benchmarks = EmptyMap
    /\ results = NoResults
    /\ reports = {}
    /\ calls = <<>>
    /\ forceLeft = FALSE
    /\ forceSeen = <<>>
    /\ totalTime = FALSE
    /\ stdout = <<>>
    /\ result = Running
    /\ \E input \in CritInputs : hist = <<Step("input", input)>>

NextCrit ==
    \/ FromStr
    \/ Display
    \/ Serialize
    \/ Deserialize
    \/ Compare

SpecCrit == InitCrit /\ [][NextCrit]_vars

(***************************************************************************)
(* Properties of the run.                                                  *)
(***************************************************************************)
\* The collaborator steps of one package of this run, in the order of the
\* per-package algorithm; the report is opened only when asked for.
PackageSteps ==
    <<"decompress", "dex_to_jar", "decompile", "results_init", "static_analysis",
      "generate_report">> \o (IF open THEN <<"open">> ELSE <<>>)

\* The calls made for package i, in the order they were made.
CallsOf(i) == LET OfPackage(c) == c.package = i IN SelectSeq(calls, OfPackage)

StepsOf(i) == [n \in 1..Len(CallsOf(i)) |-> CallsOf(i)[n].step]

\* Package i ran through all of its steps and every one succeeded.
Completed(i) ==
    /\ StepsOf(i) = PackageSteps
    /\ \A n \in 1..Len(CallsOf(i)) : CallsOf(i)[n].outcome = "ok"

IsPrefix(s, t) == Len(s) <= Len(t) /\ \A n \in 1..Len(s) : s[n] = t[n]

\* C1 (fail-fast batch): whenever a collaborator step of package i has
\* failed, it is the last call ever made (no stage of package i or of a
\* later package follows it), run has returned an error, and every package
\* before i ran through all of its steps successfully.
C1_FailFast ==
    \A k \in 1..Len(calls) :
        calls[k].outcome # "ok" =>
            /\ k = Len(calls)
            /\ \A c \in 1..Len(calls) : calls[c].package <= calls[k].package
            /\ result.status = "err"
            /\ pc = "done"
            /\ \A j \in 1..(calls[k].package - 1) : Completed(j)

\* C1 witness: a three-package run with benchmarking whose second package
\* failed to unpack after the first ran through.
C1_Witness ==
    /\ Len(packages) = 3
    /\ bench
    /\ calls # <<>>
    /\ calls[Len(calls)] = Call(2, "decompress", "err")
    /\ Completed(1)
    /\ result.status = "err"

\* C2 (stage order): the calls made for a package are a prefix of the fixed
\* step sequence (so each step is made at most once and only after all
\* earlier ones), every call but the last one made for the package
\* succeeded, and a failed call is followed by no call at all.
C2_StepOrder ==
    \A i \in 1..Len(packages) :
        /\ IsPrefix(StepsOf(i), PackageSteps)
        /\ \A n \in 1..(Len(CallsOf(i)) - 1) : CallsOf(i)[n].outcome = "ok"
        /\ \A k \in 1..Len(calls) :
              (calls[k].package = i /\ calls[k].outcome # "ok") => k = Len(calls)

\* C2 witness: a package whose decompilation failed after unpacking and
\* conversion succeeded.
C2_Witness ==
    /\ calls # <<>>
    /\ calls[Len(calls)] = Call(2, "decompile", "err")
    /\ StepsOf(2) = <<"decompress", "dex_to_jar", "decompile">>
    /\ pc = "done"

\* C3 (force reset): the first stage of every package finds the force
\* override cleared.
C3_ForceCleared ==
    /\ \A n \in 1..Len(forceSeen) : forceSeen[n] = FALSE
    /\ Len(forceSeen) = Cardinality({calls[k].package : k \in 1..Len(calls)})

\* C3 witness: the first package left the override set, and the first stage
\* of the second package has run.
C3_Witness ==
    /\ idx = 2
    /\ forceLeft = TRUE
    /\ Len(forceSeen) = 2
    /\ Len(CallsOf(1)) > 1
    /\ pc = "dex_to_jar"

\* C4 (benchmarking disabled): the ledger stays empty, no "Total time"
\* Benchmark is created and no summary is printed; the stages run all the
\* same.
C4_NoBench ==
    ~bench =>
        /\ benchmarks = EmptyMap
        /\ ~totalTime
        /\ stdout = <<>>
        /\ result.status = "ok" => \A i \in 1..Len(packages) : Completed(i)
        /\ result.status # "panic"

\* C4 witness: a run of two packages without benchmarking has ended well.
C4_Witness ==
    /\ ~bench
    /\ Len(packages) = 2
    /\ result.status = "ok"
    /\ Len(calls) >= 12

\* C5 (report opening): when the handler has exited with a non-success
\* status, run has returned an error naming the status, although
\* generate_report succeeded for the package and its report stays written.
C5_OpenFailure ==
    \A k \in 1..Len(calls) :
        (calls[k].step = "open" /\ calls[k].outcome \in FailureStatuses) =>
            /\ open
            /\ result = Err("Msg", <<<<"Application analysis failed">>,
                                     <<"Report opening errored with status code: ",
                                       calls[k].outcome>>>>)
            /\ k > 1
            /\ calls[k - 1] = Call(calls[k].package, "generate_report", "ok")
            /\ get_package_name(packages[calls[k].package]) \in reports

\* C5 witness: the handler failed for the second package.
C5_Witness ==
    /\ calls # <<>>
    /\ calls[Len(calls)] = Call(2, "open", "exit code: 1")
    /\ result.status = "err"
    /\ get_package_name(packages[2]) \in reports

\* The package names of the groups of the printed summary, in print order.
PrintedNames ==
    LET IsPackage(l) == l.kind = "package"
        heads == SelectSeq(stdout, IsPackage)
    IN  [n \in 1..Len(heads) |-> heads[n].text[1]]

\* The benchmark lines printed under the package line at place i of stdout.
GroupAt(i) ==
    LET end == CHOOSE j \in (i + 1)..Len(stdout) :
                   /\ stdout[j].kind = "blank"
                   /\ \A m \in (i + 1)..(j - 1) : stdout[m].kind = "bench"
    IN  [n \in 1..(end - i - 1) |-> stdout[i + n].text]

\* The package names in the order in which they were first inserted into
\* the ledger, which is the order in which the packages were processed.
RECURSIVE InsertionOrder(_)
InsertionOrder(paths) ==
    IF paths = <<>> THEN <<>>
    ELSE LET front == InsertionOrder(SubSeq(paths, 1, Len(paths) - 1))
             name == get_package_name(paths[Len(paths)])
         IN  IF \E n \in 1..Len(front) : front[n] = name
             THEN front
             ELSE Append(front, name)

SucceededWithBench == pc = "done" /\ result.status = "ok" /\ bench

\* Within each printed group the benchmarks are those of the ledger entry,
\* in the order they were appended to it.
GroupsInRecordedOrder ==
    \A i \in 1..Len(stdout) :
        stdout[i].kind = "package" =>
            /\ stdout[i].text[1] \in DOMAIN benchmarks
            /\ GroupAt(i) = [n \in 1..Len(benchmarks[stdout[i].text[1]]) |->
                                benchmarks[stdout[i].text[1]][n].label]

\* C10 as claimed: after a successful run with benchmarking the groups are
\* printed in the order in which the packages were inserted into the ledger.
C10_InsertionOrder ==
    SucceededWithBench =>
        /\ PrintedNames = InsertionOrder(packages)
        /\ GroupsInRecordedOrder

\* C10 amended: after a successful run with benchmarking the summary holds
\* one group per distinct package name, the groups in ascending order of
\* the package name, and within each group the benchmarks in the order
\* they were recorded.
C10_KeyOrder ==
    SucceededWithBench =>
        /\ \A i, j \in 1..Len(PrintedNames) :
              i < j => NameLt(PrintedNames[i], PrintedNames[j])
        /\ {PrintedNames[i] : i \in 1..Len(PrintedNames)}
              = {get_package_name(packages[i]) : i \in 1..Len(packages)}
        /\ GroupsInRecordedOrder

\* C10 witness: "b" was processed before "a" and the summary was printed.
C10_Witness ==
    /\ SucceededWithBench
    /\ packages = <<"b.apk", "a.apk">>
    /\ PrintedNames = <<"a", "b">>
    /\ Len(stdout) = 19

(***************************************************************************)
(* Properties of the severity model.                                       *)
(***************************************************************************)
\* The severity the text names when letter-casing is ignored, if any.
NamedBy(s) == {c \in DOMAIN CanonicalName : s \in CasingsOf[c]}

\* C6 (text round trip): from_str of a canonical name in any letter-casing
\* is the matching variant; Display of a variant is its lowercase canonical
\* name; and from_str of what Display wrote is the variant displayed.
C6_RoundTrip ==
    \A k \in 2..Len(hist) :
        /\ (hist[k].op = "from_str" /\ NamedBy(hist[k - 1].val.text) # {}) =>
               \A c \in NamedBy(hist[k - 1].val.text) : hist[k].val = CritVal(c)
        /\ hist[k].op = "fmt" =>
               hist[k].val = TextVal(CanonicalName[hist[k - 1].val.crit])
        /\ (hist[k].op = "from_str" /\ hist[k - 1].op = "fmt") =>
               hist[k].val = hist[k - 2].val

\* C6 witness: a mixed-case name was parsed, displayed and parsed again.
C6_Witness ==
    /\ Len(hist) = 4
    /\ hist[1].val = TextVal(<<"w", "A", "r", "N", "i", "n", "G">>)
    /\ hist[2] = Step("from_str", CritVal("Warning"))
    /\ hist[3].op = "fmt"
    /\ hist[4].op = "from_str"

\* The order of the severities as listed: Warning < Low < Medium < High < Critical.
ListedRank ==
    [c \in {"Warning", "Low", "Medium", "High", "Critical"} |->
        CASE c = "Warning" -> 1 [] c = "Low" -> 2 [] c = "Medium" -> 3
          [] c = "High" -> 4 [] c = "Critical" -> 5]

\* C7 (total order): of a < b, a = b, b < a exactly one holds, == agrees
\* with identity, < is transitive, and < is the listed order.
C7_TotalOrder ==
    \A k \in 2..Len(hist) :
        hist[k].op = "cmp" =>
            LET t == hist[k - 1].val
                o == hist[k].val
            IN  /\ Cardinality({x \in {"lt", "eq", "gt"} :
                        \/ x = "lt" /\ o.lt_ab
                        \/ x = "eq" /\ t.a = t.b
                        \/ x = "gt" /\ o.lt_ba}) = 1
                /\ o.eq_ab <=> (t.a = t.b)
                /\ (o.lt_ab /\ o.lt_bc) => o.lt_ac
                /\ o.lt_ab <=> (ListedRank[t.a] < ListedRank[t.b])
                /\ o.lt_ba <=> (ListedRank[t.b] < ListedRank[t.a])

\* C7 witness: Warning < Low and Low < Critical were compared.
C7_Witness ==
    /\ Len(hist) = 2
    /\ hist[1].val = [kind |-> "triple", a |-> "Warning", b |-> "Low", c |-> "Critical"]
    /\ hist[2].op = "cmp"
    /\ hist[2].val.lt_ab
    /\ hist[2].val.lt_ac

\* C8 (invalid text): from_str of a text that is no canonical name in any
\* letter-casing is the Parse error, never a variant.
C8_ParseError ==
    \A k \in 2..Len(hist) :
        (hist[k].op = "from_str" /\ NamedBy(hist[k - 1].val.text) = {}) =>
            hist[k].val = ParseError

\* C8 witness: a misspelled name was rejected.
C8_Witness ==
    /\ Len(hist) = 2
    /\ hist[1].val = TextVal(<<"W", "a", "r", "n", "i", "g">>)
    /\ hist[2] = Step("from_str", ParseError)

\* C9 (structured round trip): serialize writes the String node of the
\* lowercase name, deserialize of that node is the variant serialized, and
\* deserialize of a node that is no String, or a String naming no severity,
\* is an error carrying the node.
C9_SerdeRoundTrip ==
    \A k \in 2..Len(hist) :
        /\ hist[k].op = "serialize" =>
               hist[k].val = NodeVal("String", CanonicalName[hist[k - 1].val.crit])
        /\ (hist[k].op = "deserialize" /\ hist[k - 1].op = "serialize") =>
               hist[k].val = hist[k - 2].val
        /\ (hist[k].op = "deserialize"
              /\ (hist[k - 1].val.type # "String" \/ NamedBy(hist[k - 1].val.text) = {})) =>
               /\ hist[k].val.kind = "error"
               /\ hist[k].val.value = hist[k - 1].val

\* C9 witness: Medium was serialized and read back.
C9_Witness ==
    /\ Len(hist) = 3
    /\ hist[1].val = CritVal("Medium")
    /\ hist[2].op = "serialize"
    /\ hist[3] = Step("deserialize", CritVal("Medium"))

(***************************************************************************)
(* Further properties of the run.                                          *)
(***************************************************************************)
\* C11 (the ledger only grows): every step keeps every entry of the ledger
\* and keeps what the entry held as a prefix of what it holds afterwards,
\* so a Benchmark once appended is never removed or replaced.
C11_LedgerGrows ==
    [][\A n \in DOMAIN benchmarks :
          /\ n \in DOMAIN benchmarks'
          /\ IsPrefix(benchmarks[n], benchmarks'[n])]_vars

\* The context message the code attaches to a failure of each step, where it
\* attaches one (its first piece).
StepContext ==
    [s \in {"decompress", "dex_to_jar", "decompile", "generate_report", "open"} |->
        CASE s = "decompress"      -> "apk decompression failed"
          [] s = "dex_to_jar"      -> "Conversion from DEX to JAR failed"
          [] s = "decompile"       -> "JAR decompression failed"
          [] s = "generate_report" ->
                "There was an error generating the results report. Tried to generate at: "
          [] s = "open"            -> "Report could not be opened automatically"]

\* C12 (causation chain): whenever a collaborator call has returned an
\* error, run has returned the chain "Application analysis failed", then a
\* context message of the step, then the underlying cause: three links,
\* for a failure of Results::init as for a failure of a stage.
C12_ContextChain ==
    \A k \in 1..Len(calls) :
        calls[k].outcome = "err" =>
            /\ result.status = "err"
            /\ Len(result.chain) = 3
            /\ result.chain[1] = <<"Application analysis failed">>
            /\ calls[k].step \in DOMAIN StepContext =>
                   result.chain[2][1] = StepContext[calls[k].step]

\* The open-report step of the current package has been made.
OpenCalled == \E k \in 1..Len(calls) : calls[k].package = idx /\ calls[k].step = "open"

\* The entry of the current package holds the two last Benchmarks.
FinalBenchmarksRecorded ==
    /\ package_name \in DOMAIN benchmarks
    /\ Len(benchmarks[package_name]) = 6
    /\ benchmarks[package_name][5] = Benchmark(<<"Report generation">>)
    /\ benchmarks[package_name][6] = Benchmark(<<"Total time for ", package_name>>)

\* C13 as claimed: with benchmarking, the two last Benchmarks of a package
\* are appended after its open-report step, so while the report is still
\* to be opened the entry does not hold them.
C13_AfterOpen ==
    (bench /\ open /\ pc = "open" /\ ~OpenCalled) => ~FinalBenchmarksRecorded

\* C13 amended: with benchmarking, the two last Benchmarks of a package are
\* appended before its open-report step: the entry holds them when the
\* report is about to be opened, and still when opening it has failed.
C13_BeforeOpen ==
    (bench /\ (pc = "open" \/ (pc = "done" /\ OpenCalled))) => FinalBenchmarksRecorded

\* C13 witness: opening the report of the second package failed, with the
\* six Benchmarks of that package in the ledger.
C13_Witness ==
    /\ bench
    /\ open
    /\ pc = "done"
    /\ idx = 2
    /\ calls[Len(calls)] = Call(2, "open", "err")
    /\ FinalBenchmarksRecorded

\* The fixed label sequence of the entry of a package name.
SixLabels(name) ==
    <<<<"Apk decompression">>,
      <<"Dex to Jar decompilation (dex2jar Java dependency)">>,
      <<"Decompilation (jd-cli Java dependency)">>,
      <<"Total static analysis">>,
      <<"Report generation">>,
      <<"Total time for ", name>>>>

LabelsOf(name) == [n \in 1..Len(benchmarks[name]) |-> benchmarks[name][n].label]

\* How many of the steps before the open-report step succeeded for package i.
Succeeded(i) ==
    Cardinality({n \in 1..Len(CallsOf(i)) :
                    CallsOf(i)[n].outcome = "ok" /\ CallsOf(i)[n].step # "open"})

\* The Benchmarks due once that many steps succeeded: one per stage, none
\* for Results::init, two for the report.
BenchmarksDue ==
    [n \in 0..6 |->
        CASE n <= 3 -> n
          [] n = 4  -> 3
          [] n = 5  -> 4
          [] n = 6  -> 6]

\* The run is inside analyze_package for package idx, or has failed in it.
InPackage ==
    /\ ledgerCreated
    /\ idx <= Len(packages)
    /\ pc \notin {"check", "loop"}

\* C14 (ledger entry): with benchmarking, every entry is a prefix of the
\* fixed label sequence of its package name; the entry of the package being
\* analyzed is empty before the first stage and holds exactly the
\* Benchmarks of the steps that succeeded so far; the entry of a package
\* that ran through holds exactly the six Benchmarks.
C14_EntryPrefix ==
    bench =>
        /\ \A n \in DOMAIN benchmarks : IsPrefix(LabelsOf(n), SixLabels(n))
        /\ InPackage =>
              /\ package_name \in DOMAIN benchmarks
              /\ Len(benchmarks[package_name]) = BenchmarksDue[Succeeded(idx)]
        /\ (pc = "loop" /\ idx > 1) =>
              LabelsOf(get_package_name(packages[idx - 1]))
                 = SixLabels(get_package_name(packages[idx - 1]))

\* C14 witness: the second package, of the same name as the first, failed
\* to decompile with two Benchmarks in its entry.
C14_Witness ==
    /\ bench
    /\ Len(packages) >= 2
    /\ get_package_name(packages[1]) = get_package_name(packages[2])
    /\ idx = 2
    /\ pc = "done"
    /\ calls[Len(calls)] = Call(2, "decompile", "err")
    /\ Len(benchmarks[package_name]) = 2

\* C15 (static analysis cannot abort): after every successful Results::init
\* the run is about to call static_analysis or has called it, without
\* failure; and after static_analysis it is about to call generate_report
\* for the same package or has called it, whatever the accumulator holds.
C15_AnalysisThenReport ==
    \A k \in 1..Len(calls) :
        (calls[k].step = "results_init" /\ calls[k].outcome = "ok") =>
            IF k = Len(calls)
            THEN pc = "static_analysis" /\ result = Running
            ELSE /\ calls[k + 1] = Call(calls[k].package, "static_analysis", "ok")
                 /\ IF k + 1 = Len(calls)
                    THEN pc = "generate_report" /\ result = Running
                    ELSE /\ calls[k + 2].package = calls[k].package
                         /\ calls[k + 2].step = "generate_report"

\* C15 witness: static_analysis recorded analysis errors and generate_report
\* was called all the same.
C15_Witness ==
    /\ calls # <<>>
    /\ calls[Len(calls)] = Call(1, "generate_report", "ok")
    /\ results.recorded = "analysis errors"

\* The message holds the text as one of its pieces.
Holds(message, text) == \E n \in 1..Len(message) : message[n] = text

\* C16 (invalid configuration): when validation fails, no package is ever
\* started (no reset_force, no stage, no ledger), and run returns a Config
\* error whose message holds every accumulated error and every loaded file.
C16_ConfigError ==
    ~check =>
        /\ pc \in {"check", "done"}
        /\ calls = <<>>
        /\ forceSeen = <<>>
        /\ ~ledgerCreated
        /\ benchmarks = EmptyMap
        /\ pc = "done" =>
              /\ result.status = "err"
              /\ result.kind = "Config"
              /\ Len(result.chain) = 1
              /\ \A n \in 1..Len(configErrors) : Holds(result.chain[1], configErrors[n])
              /\ \A n \in 1..Len(loadedFiles) : Holds(result.chain[1], loadedFiles[n])

\* C16 witness: two errors, a loaded file and packages to analyze; run has
\* returned the Config error.
C16_Witness ==
    /\ Len(configErrors) = 2
    /\ loadedFiles = <<"config.toml">>
    /\ Len(packages) = 2
    /\ pc = "done"
    /\ result.kind = "Config"

AllCompleted == \A i \in 1..Len(packages) : Completed(i)

\* The summary has been printed: the header, and the "Total time"
\* Benchmark as the last line.
SummaryPrinted ==
    /\ stdout # <<>>
    /\ \E n \in 1..Len(stdout) : stdout[n] = Line("header", <<"Benchmarks:">>)
    /\ stdout[Len(stdout)] = Line("bench", <<"Total time">>)
    /\ totalTime

\* C17 (summary): nothing of the summary is printed unless benchmarking is
\* enabled and every package ran through; when run has returned, the
\* summary has been printed exactly if benchmarking is enabled and every
\* package of a valid configuration ran through; after a failure nothing
\* of it has been printed.
C17_SummaryIff ==
    /\ (stdout # <<>> \/ totalTime) =>
           /\ SummaryPrinted
           /\ bench
           /\ result.status = "ok"
           /\ AllCompleted
    /\ pc = "done" => (SummaryPrinted <=> (bench /\ check /\ AllCompleted))
    /\ result.status = "err" => (stdout = <<>> /\ ~totalTime)

\* C17 witness: two packages ran through with benchmarking and the summary
\* has been printed.
C17_Witness ==
    /\ Len(packages) = 2
    /\ bench
    /\ pc = "done"
    /\ AllCompleted
    /\ SummaryPrinted

\* The positions of analyze_package from which a Benchmark may be pushed.
PushPositions ==
    {"decompress", "dex_to_jar", "decompile", "static_analysis", "generate_report"}

\* C18 (unwrap): whenever analyze_package is at a call after which it may
\* push a Benchmark, benchmarking being enabled, the ledger has an entry
\* for the package name; no get_mut(..).unwrap() has panicked.
C18_UnwrapSafe ==
    /\ result.status # "panic"
    /\ (bench /\ pc \in PushPositions \cup {"results_init", "open"}) =>
           package_name \in DOMAIN benchmarks
    /\ bench =>
           \A k \in 1..Len(calls) :
               get_package_name(packages[calls[k].package]) \in DOMAIN benchmarks

\* C18 witness: with benchmarking, all the pushes of the second package
\* have been made.
C18_Witness ==
    /\ bench
    /\ idx = 2
    /\ pc = "open"
    /\ get_package_name(packages[1]) # get_package_name(packages[2])
    /\ Len(benchmarks[package_name]) = 6

\* run has returned Ok after the last step of the last package.
TerminalSuccess ==
    /\ pc = "done"
    /\ result.status = "ok"
    /\ idx = Len(packages) + 1
    /\ AllCompleted

\* run has returned Err at the first failure: of the configuration check,
\* before any call, or of a step, which is the last call made.
TerminalFailure ==
    /\ pc = "done"
    /\ result.status = "err"
    /\ IF calls = <<>>
       THEN ~check
       ELSE /\ calls[Len(calls)].outcome # "ok"
            /\ calls[Len(calls)].package = idx
            /\ \A k \in 1..(Len(calls) - 1) : calls[k].outcome = "ok"

Terminal == TerminalSuccess \/ TerminalFailure

\* No step of a package is called twice, and no call is made for a package
\* after a call for a later one.
NoRevisit ==
    \A j, k \in 1..Len(calls) :
        j < k =>
            /\ calls[j].package <= calls[k].package
            /\ ~(calls[j].package = calls[k].package /\ calls[j].step = calls[k].step)

\* C19 (termination): every run reaches a terminal state (Ok after the last
\* step of the last package, or Err at the first failing step) and stays
\* there; no step is called twice for a package, no earlier package is
\* called again, and the loop only moves forward through the list.
C19_Terminates ==
    /\ <>[]Terminal
    /\ [][NoRevisit']_vars
    /\ [][idx' \in {idx, idx + 1}]_vars

\* C19 witness: a list of three packages ran to the end without the final
\* summary, every report having been opened.
C19_Witness ==
    /\ Len(packages) = 3
    /\ open
    /\ ~bench
    /\ TerminalSuccess
    /\ Len(calls) = 3 * Len(PackageSteps)

=============================================================================
